---- MODULE Spec2Model ----
(***************************************************************************)
(* One Stratum V1 session (StratumV1Client) as a state machine.            *)
(*                                                                         *)
(* JavaScript runs one callback at a time: an async function runs without  *)
(* interruption up to its next `await`, and is resumed later, in an order  *)
(* the I/O decides.  Each action below is therefore one such uninterrupted *)
(* stretch of code: the start of a handler (up to its first await) or the  *)
(* resumption after one await (up to the next).                            *)
(*                                                                         *)
(* Difficulties are counted in tenths, so that cpuminer's 0.1 is the       *)
(* integer 1 and the default 16384 is Tenths(16384).                       *)
(***************************************************************************)
EXTENDS Naturals, Sequences, FiniteSets, TLC

VARIABLES
    client,     \* the fields of the StratumV1Client object
    socket,     \* promiseSocket: ended flag and the lines handed to it
    hs,         \* handleMessage invocations, in order of arrival
    tasks,      \* sendNewMiningJob / checkDifficulty invocations
    registry,   \* StratumV1JobsService: templates published, jobs, next id
    stores,     \* injected services: shares seen, address best difficulty,
                \* the configured DEV_FEE_ADDRESS, the hash rates answered
    destroyed,  \* destroy() has been called
    fuel        \* what the environment may still do (bounds of the model)

vars == <<client, socket, hs, tasks, registry, stores, destroyed, fuel>>

----------------------------------------------------------------------------
(* Values *)

None == <<>>
Some(x) == <<x>>
Get(o) == o[1]

Tenths(x) == x * 10

\* private sessionDifficulty: number = 16384
DefaultDifficulty == 16384
\* this.sessionDifficulty = 0.1, in tenths
CpuminerDifficulty == 1
\* eStratumErrorCode
OtherUnknown == 20
JobNotFound == 21
DuplicateShare == 22
LowDifficultyShare == 23

SUBSCRIBE == "mining.subscribe"
CONFIGURE == "mining.configure"
AUTHORIZE == "mining.authorize"
SUGGEST_DIFFICULTY == "mining.suggest_difficulty"
SUBMIT == "mining.submit"
UNKNOWN_METHOD == "mining.unknown"
INVALID_JSON == "invalid json"

\* Bounds of the model
MaxMessages == 3
MaxSubmits == 1
MaxShares == 1
MaxTemplates == 2
MaxTicks == 1
MaxStoreFailures == 1
MaxConcurrent == 2
MaxInvalid == 1
MaxTransactions == 4

UserAgents == {"cpuminer", "cgminer"}
Addresses == {"addrA"}
SuggestedValues == {Tenths(512), Tenths(1024)}
\* network difficulty of every template of the model
NetworkDifficulty == Tenths(60000)
\* difficulties a submitted header can hash to: below the default session
\* difficulty, equal to it, between session and network difficulty, a block
ShareDifficulties == {Tenths(100), Tenths(DefaultDifficulty), Tenths(20000), Tenths(70000)}
\* configService.get('DEV_FEE_ADDRESS'): unset, empty, or an address
DevFeeAddresses == {None, Some(""), Some("devFee")}
\* what Vardiff can return: nothing, or a difficulty
VardiffValues == {Tenths(DefaultDifficulty), Tenths(32768)}

----------------------------------------------------------------------------
(* Lines written to the socket.  id is the index of the handler answered   *)
(* (0 for a notification), val the difficulty or the template's number.    *)

ResultLine(id) == [kind |-> "result", id |-> id, val |-> 0, clean |-> FALSE, by |-> "handler"]
ErrorLine(id, code) == [kind |-> "error", id |-> id, val |-> code, clean |-> FALSE, by |-> "handler"]
SetDifficultyLine(d, by) == [kind |-> "set_difficulty", id |-> 0, val |-> d, clean |-> FALSE, by |-> by]
NotifyLine(tplId, clean, by) == [kind |-> "notify", id |-> 0, val |-> tplId, clean |-> clean, by |-> by]

\* promiseSocket.write(line): the line is handed to the socket when the
\* write succeeds.  A write fails on a socket that was ended, and on a
\* connection that broke: once one write has failed every later one does
WriteOutcomes == IF socket.ended \/ socket.broken THEN {FALSE} ELSE {TRUE, FALSE}

Write(sock, line, ok) == IF ok THEN [sock EXCEPT !.out = Append(@, line)]
                         ELSE IF sock.ended THEN sock
                         ELSE [sock EXCEPT !.broken = TRUE]

\* promiseSocket.end()
End(sock) == [sock EXCEPT !.ended = TRUE]

\* an awaited store call succeeds, or fails while the budget lasts
StoreOutcomes == IF fuel.storeFailures > 0 THEN {TRUE, FALSE} ELSE {TRUE}

FuelAfterStore(ok) == IF ok THEN fuel ELSE [fuel EXCEPT !.storeFailures = @ - 1]

----------------------------------------------------------------------------
(* Initial state: the object after its constructor *)

InitClient == [
    clientSubscription |-> None,
    clientConfiguration |-> None,
    clientAuthorization |-> None,
    clientSuggestedDifficulty |-> None,
    stratumSubscription |-> "null",
    backgroundWork |-> "null",
    stratumInitialized |-> FALSE,
    usedSuggestedDifficulty |-> FALSE,
    sessionDifficulty |-> Tenths(DefaultDifficulty),
    entity |-> None ]

\* devs: the values DEV_FEE_ADDRESS may be configured with; rates: the
\* answers getHashRateForSession may give
InitEnv(f, devs, rates) ==
    /\ client = InitClient
    /\ socket = [ended |-> FALSE, broken |-> FALSE, out |-> <<>>]
    /\ hs = <<>>
    /\ tasks = <<>>
    /\ registry = [templates |-> <<>>, jobs |-> {}, nextId |-> 1]
    /\ \E dev \in devs :
         stores = [shares |-> {}, addressBest |-> 0, devFeeAddress |-> dev,
                   hashRates |-> rates]
    /\ destroyed = FALSE
    /\ fuel = f

\* a session whose hash rate is not known yet (0)
InitWith(f, devs) == InitEnv(f, devs, {0})

----------------------------------------------------------------------------
(* handleMessage: one record per invocation.                               *)
(*   msg          the message                                              *)
(*   pc           the await the invocation is suspended at, or done/threw  *)
(*   wfail        the write it awaits has failed                           *)
(*   blockResult  what SUBMIT_BLOCK returned: none (not called), null,     *)
(*                rejected                                                 *)
(*   calls        the external calls the invocation has made               *)
(*   failed       why it threw, or how its last caught error arose         *)
(*   madeBoth     it recorded the slot that made subscription and          *)
(*                authorization both present                               *)
(*   completion   it entered the handshake-completion block (line 282)     *)

NewHandler(m, pc) == [msg |-> m, pc |-> pc, wfail |-> FALSE, blockResult |-> "none",
                      calls |-> {}, failed |-> "none", madeBoth |-> FALSE,
                      completion |-> FALSE]

\* the result of one uninterrupted stretch of a handler
Result(rec, c, sock) == [rec |-> rec, client |-> c, sock |-> sock]

At(rec, pc) == [rec EXCEPT !.pc = pc]
Called(rec, name) == [rec EXCEPT !.calls = @ \cup {name}]

\* await this.promiseSocket.write(line), the handler then waiting at pc
Writing(rec, c, sock, line, ok, pc) ==
    Result([rec EXCEPT !.pc = pc, !.wfail = ~ok], c, Write(sock, line, ok))

\* an exception leaves handleMessage: the data handler's catch ends the socket
Throw(rec, c, sock, why) ==
    Result([rec EXCEPT !.pc = "threw", !.failed = why], c, End(sock))

\* the completion condition without its stratumInitialized test
CompletionNeededNoLatch(c) ==
    /\ c.clientSubscription # None
    /\ c.clientAuthorization # None

\* lines 278-280: the handshake-completion condition
CompletionNeeded(c) ==
    /\ c.clientSubscription # None
    /\ c.clientAuthorization # None
    /\ c.stratumInitialized = FALSE

BothPresent(c) == c.clientSubscription # None /\ c.clientAuthorization # None

\* the completion without its user-agent switch
QuirkDifficultyNone(c) == c.sessionDifficulty

\* lines 284-288: the user-agent switch
QuirkDifficulty(c) ==
    IF Get(c.clientSubscription) = "cpuminer" THEN CpuminerDifficulty ELSE c.sessionDifficulty

\* the completion writing mining.set_difficulty without its test of the
\* recorded suggestion
CompletionAlwaysSets(rec, c, sock, ok) ==
    IF CompletionNeeded(c)
    THEN LET c2 == [c EXCEPT !.stratumInitialized = TRUE,
                             !.sessionDifficulty = QuirkDifficulty(c)]
         IN  Writing([rec EXCEPT !.completion = TRUE], c2, sock,
                     SetDifficultyLine(c2.sessionDifficulty, "handshake"),
                     ok, "setDifficultyWrite")
    ELSE Result(At(rec, "done"), c, sock)

\* lines 278-299: the end of handleMessage, up to its first await
Completion(rec, c, sock, ok) ==
    IF CompletionNeeded(c)
    THEN LET c2 == [c EXCEPT !.stratumInitialized = TRUE,
                             !.sessionDifficulty = QuirkDifficulty(c)]
             rec2 == [rec EXCEPT !.completion = TRUE]
         IN  IF c2.clientSuggestedDifficulty = None
             THEN Writing(rec2, c2, sock, SetDifficultyLine(c2.sessionDifficulty, "handshake"),
                          ok, "setDifficultyWrite")
             ELSE Result(At(Called(rec2, "insert"), "insert"), c2, sock)
    ELSE Result(At(rec, "done"), c, sock)

\* what a step leaves in the variables every handler step can change
Apply(h, r, ok) ==
    /\ hs' = [hs EXCEPT ![h] = r.rec]
    /\ client' = r.client
    /\ socket' = r.sock
    /\ fuel' = fuel

\* lines 64-76 and 101-115, 208-211: the data handler starts handleMessage
\* for one line; it runs up to its first await
StartHandler(m, c, sock, ok) ==
    IF m.method = INVALID_JSON
    THEN Result(NewHandler(m, "done"), c, End(sock))
    ELSE IF m.method = UNKNOWN_METHOD
    THEN Completion(NewHandler(m, "done"), c, sock, ok)
    ELSE IF m.method = SUGGEST_DIFFICULTY /\ c.usedSuggestedDifficulty = TRUE
    THEN Result(NewHandler(m, "done"), c, sock)
    ELSE Result(NewHandler(m, "validate"), c, sock)

\* the environment's budget after message m
FuelAfterMessage(m) ==
    IF m.method = SUBMIT THEN [fuel EXCEPT !.submits = @ - 1]
    ELSE [fuel EXCEPT !.messages = @ - 1]

Receive(m) ==
    /\ IF m.method = SUBMIT THEN fuel.submits > 0 ELSE fuel.messages > 0
    /\ ~destroyed
    /\ \E ok \in WriteOutcomes :
         LET r == StartHandler(m, client, socket, ok)
         IN  /\ hs' = Append(hs, r.rec)
             /\ client' = r.client
             /\ socket' = r.sock
             /\ fuel' = FuelAfterMessage(m)
    /\ UNCHANGED <<tasks, registry, stores, destroyed>>

\* the slot a valid handshake message records
Recorded(c, m) ==
    IF m.method = SUBSCRIBE THEN [c EXCEPT !.clientSubscription = Some(m.arg)]
    ELSE IF m.method = CONFIGURE THEN [c EXCEPT !.clientConfiguration = Some(m.arg)]
    ELSE [c EXCEPT !.clientAuthorization = Some(m.arg)]

\* the slot recorded without the test of the validation result
HandshakeUnchecked(h, rec, c, sock, ok) ==
    Writing(rec, Recorded(c, rec.msg), sock, ResultLine(h), ok, "responseWrite")

\* lines 127-142, 158-173, 188-204: subscribe, configure, authorize after
\* validate
Handshake(h, rec, c, sock, ok) ==
    IF rec.msg.valid
    THEN LET c2 == Recorded(c, rec.msg)
         IN  Writing([rec EXCEPT !.madeBoth = BothPresent(c2) /\ ~BothPresent(c)],
                     c2, sock, ResultLine(h), ok, "responseWrite")
    ELSE Writing(rec, c, sock, ErrorLine(h, OtherUnknown), ok, "responseWrite")

\* lines 223-240: suggest_difficulty after validate
Suggest(h, rec, c, sock, ok) ==
    IF rec.msg.valid
    THEN LET c2 == [c EXCEPT !.clientSuggestedDifficulty = Some(rec.msg.arg),
                             !.sessionDifficulty = rec.msg.arg]
         IN  Writing(rec, c2, sock, SetDifficultyLine(c2.sessionDifficulty, "suggest"),
                     ok, "suggestWrite")
    ELSE Writing(rec, c, sock, ErrorLine(h, OtherUnknown), ok, "responseWrite")

IsHandshake(m) == m.method \in {SUBSCRIBE, CONFIGURE, AUTHORIZE}

\* the resumption after `await validate(...)` of a handshake message
AfterValidateHandshake(h) ==
    /\ hs[h].pc = "validate"
    /\ IsHandshake(hs[h].msg)
    /\ \E ok \in WriteOutcomes : Apply(h, Handshake(h, hs[h], client, socket, ok), ok)
    /\ UNCHANGED <<tasks, registry, stores, destroyed>>

\* the resumption after `await validate(...)` of a suggest_difficulty
AfterValidateSuggest(h) ==
    /\ hs[h].pc = "validate"
    /\ hs[h].msg.method = SUGGEST_DIFFICULTY
    /\ \E ok \in WriteOutcomes : Apply(h, Suggest(h, hs[h], client, socket, ok), ok)
    /\ UNCHANGED <<tasks, registry, stores, destroyed>>

\* the resumption after the write of a response or of an error line: the
\* switch is left and the completion check runs
AfterResponseWrite(h) ==
    /\ hs[h].pc = "responseWrite"
    /\ \E ok \in WriteOutcomes :
         Apply(h, IF hs[h].wfail
                  THEN Throw(hs[h], client, socket, "write")
                  ELSE Completion(hs[h], client, socket, ok), ok)
    /\ UNCHANGED <<tasks, registry, stores, destroyed>>

\* lines 229-230: after the write of the suggest_difficulty response the
\* latch is set
AfterSuggestWrite(h) ==
    /\ hs[h].pc = "suggestWrite"
    /\ \E ok \in WriteOutcomes :
         Apply(h, IF hs[h].wfail
                  THEN Throw(hs[h], client, socket, "write")
                  ELSE Completion(hs[h], [client EXCEPT !.usedSuggestedDifficulty = TRUE],
                                  socket, ok), ok)
    /\ UNCHANGED <<tasks, registry, stores, destroyed>>

\* lines 294-299: after the write of set_difficulty, clientService.insert
AfterSetDifficultyWrite(h) ==
    /\ hs[h].pc = "setDifficultyWrite"
    /\ Apply(h, IF hs[h].wfail
                THEN Throw(hs[h], client, socket, "write")
                ELSE Result(At(Called(hs[h], "insert"), "insert"), client, socket),
             TRUE)
    /\ UNCHANGED <<tasks, registry, stores, destroyed>>

\* lines 299-321: clientService.insert returns; the session subscribes to
\* newMiningJob$ and starts the 60-second timer
Registered(c) == [c EXCEPT !.entity = Some(0),
                           !.stratumSubscription = "live",
                           !.backgroundWork = "running"]

\* the session is registered with the client store and subscribed to jobs
Active(c) == c.entity # None /\ c.stratumSubscription = "live"

AfterInsert(h) ==
    /\ hs[h].pc = "insert"
    /\ \E ok \in StoreOutcomes :
         /\ hs' = [hs EXCEPT ![h] = IF ok THEN At(Called(Called(@, "subscribe"), "setInterval"), "done")
                                    ELSE [@ EXCEPT !.pc = "threw", !.failed = "insert"]]
         /\ client' = IF ok THEN Registered(client) ELSE client
         /\ socket' = IF ok THEN socket ELSE End(socket)
         /\ fuel' = FuelAfterStore(ok)
    /\ UNCHANGED <<tasks, registry, stores, destroyed>>

----------------------------------------------------------------------------
(* mining.submit *)

\* stratumV1JobsService.getJobById
HasJob(reg, id) == \E j \in reg.jobs : j.id = id
JobById(reg, id) == CHOOSE j \in reg.jobs : j.id = id
\* stratumV1JobsService.getJobTemplateById
TemplateById(reg, id) == reg.templates[id]

\* calculateDifficulty(header): the difficulty the submitted header hashes
\* to is the submission's own
SubmissionDifficulty(m) == m.arg.share
\* the hash of the header: one per job and nonce
SubmissionHash(m) == <<m.arg.jobId, m.arg.share>>

\* line 414
MeetsNetwork(rec, reg) ==
    SubmissionDifficulty(rec.msg) >= TemplateById(reg, JobById(reg, rec.msg.arg.jobId).tpl).networkDifficulty

\* lines 432-433: statistics.addSubmission is called
CallAddSubmission(rec, c, sock) ==
    Result(At(Called(rec, "addSubmission"), "addSubmission"), c, sock)

\* the session difficulty test as a strict comparison
MeetsSessionStrict(rec, c) == SubmissionDifficulty(rec.msg) > c.sessionDifficulty

\* line 412
MeetsSession(rec, c) == SubmissionDifficulty(rec.msg) >= c.sessionDifficulty

\* the submission counted although its job was not found
MiningSubmissionNoLookup(h, rec, c, sock, reg, ok) ==
    IF ~HasJob(reg, rec.msg.arg.jobId)
    THEN CallAddSubmission(Called(rec, "getJobById"), c, sock)
    ELSE IF MeetsSession(rec, c)
    THEN IF MeetsNetwork(rec, reg)
         THEN Result(At(Called(Called(rec, "getJobById"), "SUBMIT_BLOCK"), "submitBlock"),
                     c, sock)
         ELSE CallAddSubmission(Called(rec, "getJobById"), c, sock)
    ELSE Writing(Called(rec, "getJobById"), c, sock, ErrorLine(h, LowDifficultyShare), ok,
                 "lowDifficultyWrite")

\* lines 384-417 and 456-470: handleMiningSubmission up to its first await
MiningSubmission(h, rec, c, sock, reg, ok) ==
    IF ~HasJob(reg, rec.msg.arg.jobId)
    THEN Writing(Called(rec, "getJobById"), c, sock, ErrorLine(h, JobNotFound), ok, "responseWrite")
    ELSE IF MeetsSession(rec, c)
    THEN IF MeetsNetwork(rec, reg)
         THEN Result(At(Called(Called(rec, "getJobById"), "SUBMIT_BLOCK"), "submitBlock"),
                     c, sock)
         ELSE CallAddSubmission(Called(rec, "getJobById"), c, sock)
    ELSE Writing(Called(rec, "getJobById"), c, sock, ErrorLine(h, LowDifficultyShare), ok,
                 "lowDifficultyWrite")

\* lines 254-272: mining.submit after validate
Submit(h, rec, c, sock, reg, ok) ==
    IF rec.msg.valid /\ c.stratumInitialized = TRUE
    THEN MiningSubmission(h, rec, c, sock, reg, ok)
    ELSE Writing(rec, c, sock, ErrorLine(h, OtherUnknown), ok, "responseWrite")

AfterValidateSubmit(h) ==
    /\ hs[h].pc = "validate"
    /\ hs[h].msg.method = SUBMIT
    /\ \E ok \in WriteOutcomes : Apply(h, Submit(h, hs[h], client, socket, registry, ok), ok)
    /\ UNCHANGED <<tasks, registry, stores, destroyed>>

\* lines 463-469: the write of error 23 is in a try/catch of its own; the
\* handler returns false either way and reaches the completion check
AfterLowDifficultyWrite(h) ==
    /\ hs[h].pc = "lowDifficultyWrite"
    /\ \E ok \in WriteOutcomes :
         Apply(h, IF hs[h].wfail
                  THEN Completion([hs[h] EXCEPT !.failed = "write"], client, End(socket), ok)
                  ELSE Completion(hs[h], client, socket, ok), ok)
    /\ UNCHANGED <<tasks, registry, stores, destroyed>>

\* bitcoinRpcService.SUBMIT_BLOCK returns null (accepted) or a reason
SubmitBlockResults == {"null", "rejected"}

\* lines 417-424: SUBMIT_BLOCK has returned result; blocksService.save
BlockSubmitted(rec, result) ==
    At(Called([rec EXCEPT !.blockResult = result], "save"), "blocksSave")

AfterSubmitBlock(h) ==
    /\ hs[h].pc = "submitBlock"
    /\ \E result \in SubmitBlockResults :
         hs' = [hs EXCEPT ![h] = BlockSubmitted(@, result)]
    /\ UNCHANGED <<client, socket, tasks, registry, stores, destroyed, fuel>>

\* an awaited store call of the submit pipeline has failed: the exception
\* leaves handleMiningSubmission and handleMessage
StoreThrow(h, name) ==
    /\ hs' = [hs EXCEPT ![h] = [@ EXCEPT !.pc = "threw", !.failed = name]]
    /\ socket' = End(socket)
    /\ fuel' = FuelAfterStore(FALSE)
    /\ UNCHANGED <<client, stores>>

\* lines 424-426: blocksService.save returns; notifySubscribersBlockFound
AfterBlocksSave(h) ==
    /\ hs[h].pc = "blocksSave"
    /\ \E ok \in StoreOutcomes :
         IF ok
         THEN /\ hs' = [hs EXCEPT ![h] = At(Called(@, "notifySubscribersBlockFound"), "notifyBlock")]
              /\ UNCHANGED <<client, socket, stores, fuel>>
         ELSE StoreThrow(h, "save")
    /\ UNCHANGED <<tasks, registry, destroyed>>

\* the reset without its test of the result
ResetAlways(rec) == TRUE

\* lines 428-430: the counters are reset when the result is null
ResetWanted(rec) == rec.blockResult = "null"

\* lines 426-433: the subscribers are notified; reset, or addSubmission
AfterNotifyBlock(h) ==
    /\ hs[h].pc = "notifyBlock"
    /\ hs' = [hs EXCEPT ![h] =
                IF ResetWanted(@)
                THEN At(Called(@, "resetBestDifficultyAndShares"), "reset")
                ELSE At(Called(@, "addSubmission"), "addSubmission")]
    /\ UNCHANGED <<client, socket, tasks, registry, stores, destroyed, fuel>>

\* lines 429-433: resetBestDifficultyAndShares returns; addSubmission
AfterReset(h) ==
    /\ hs[h].pc = "reset"
    /\ \E ok \in StoreOutcomes :
         IF ok
         THEN /\ hs' = [hs EXCEPT ![h] = At(Called(@, "addSubmission"), "addSubmission")]
              /\ stores' = [stores EXCEPT !.addressBest = 0]
              /\ UNCHANGED <<client, socket, fuel>>
         ELSE StoreThrow(h, "resetBestDifficultyAndShares")
    /\ UNCHANGED <<tasks, registry, destroyed>>

\* statistics.addSubmission: "ok", "duplicate" (the hash is already
\* recorded) or "error" (the store failed); with no entity yet (insert has
\* not returned) it may fail as well
AddSubmissionOutcomes(rec) ==
    IF SubmissionHash(rec.msg) \in stores.shares THEN {"duplicate"}
    ELSE IF client.entity = None \/ fuel.storeFailures > 0 THEN {"ok", "error"}
    ELSE {"ok"}

\* lines 446-447 and 473, 258-259: addSubmission has returned
ShareAdded(h, rec, c, sock, ok) ==
    IF c.entity = None
    THEN Throw(rec, c, sock, "TypeError")
    ELSE IF SubmissionDifficulty(rec.msg) > Get(c.entity)
    THEN Result(At(Called(rec, "updateBestDifficulty"), "updateBest"), c, sock)
    ELSE Writing(rec, c, sock, ResultLine(h), ok, "responseWrite")

\* the catch returning false without writing the error
ShareRefusedSilent(h, rec, c, sock, ok, why) ==
    Result([rec EXCEPT !.failed = why, !.pc = "responseWrite"], c, sock)

\* lines 435-443: addSubmission has thrown: error 22 whatever the reason
ShareRefused(h, rec, c, sock, ok, why) ==
    Writing([rec EXCEPT !.failed = why], c, sock, ErrorLine(h, DuplicateShare), ok, "responseWrite")

AfterAddSubmission(h) ==
    /\ hs[h].pc = "addSubmission"
    /\ \E o \in AddSubmissionOutcomes(hs[h]) : \E ok \in WriteOutcomes :
         LET r == IF o = "ok"
                  THEN ShareAdded(h, hs[h], client, socket, ok)
                  ELSE ShareRefused(h, hs[h], client, socket, ok,
                                    IF o = "duplicate" THEN "duplicate" ELSE "addSubmission")
             spent == o = "error" /\ client.entity # None
         IN  /\ hs' = [hs EXCEPT ![h] = r.rec]
             /\ client' = r.client
             /\ socket' = r.sock
             /\ stores' = IF o = "ok"
                          THEN [stores EXCEPT !.shares = @ \cup {SubmissionHash(hs[h].msg)}]
                          ELSE stores
             /\ fuel' = [fuel EXCEPT !.storeFailures = IF spent THEN @ - 1 ELSE @]
    /\ UNCHANGED <<tasks, registry, destroyed>>

\* line 448: this.entity.bestDifficulty = submissionDifficulty
BestRecorded(c, d) == [c EXCEPT !.entity = Some(d)]

\* lines 447-449: clientService.updateBestDifficulty returns; getSettings
AfterUpdateBest(h) ==
    /\ hs[h].pc = "updateBest"
    /\ \E ok \in StoreOutcomes :
         IF ok
         THEN /\ hs' = [hs EXCEPT ![h] = At(Called(@, "getSettings"), "getSettings")]
              /\ client' = BestRecorded(client, SubmissionDifficulty(hs[h].msg))
              /\ UNCHANGED <<socket, stores, fuel>>
         ELSE StoreThrow(h, "updateBestDifficulty")
    /\ UNCHANGED <<tasks, registry, destroyed>>

\* lines 449-452, 473, 258-259: getSettings returns the address's settings
AfterGetSettings(h) ==
    /\ hs[h].pc = "getSettings"
    /\ \E ok \in StoreOutcomes : \E wok \in WriteOutcomes :
         IF ok
         THEN IF SubmissionDifficulty(hs[h].msg) > stores.addressBest
              THEN /\ hs' = [hs EXCEPT ![h] = At(Called(@, "addressUpdateBestDifficulty"),
                                                 "addressUpdateBest")]
                   /\ UNCHANGED <<client, socket, stores, fuel>>
              ELSE /\ Apply(h, Writing(hs[h], client, socket, ResultLine(h), wok,
                                       "responseWrite"), wok)
                   /\ UNCHANGED stores
         ELSE StoreThrow(h, "getSettings")
    /\ UNCHANGED <<tasks, registry, destroyed>>

\* lines 450, 473, 258-259: addressSettingsService.updateBestDifficulty
\* returns; handleMiningSubmission returns true and the acknowledgement is
\* written
AfterAddressUpdateBest(h) ==
    /\ hs[h].pc = "addressUpdateBest"
    /\ \E ok \in StoreOutcomes : \E wok \in WriteOutcomes :
         IF ok
         THEN /\ Apply(h, Writing(hs[h], client, socket, ResultLine(h), wok,
                                  "responseWrite"), wok)
              /\ stores' = [stores EXCEPT !.addressBest = SubmissionDifficulty(hs[h].msg)]
         ELSE StoreThrow(h, "addressUpdateBestDifficulty")
    /\ UNCHANGED <<tasks, registry, destroyed>>

----------------------------------------------------------------------------
(* Job pushes and the background tick: one record per invocation.          *)
(*   kind   push (the newMiningJob$ subscriber) or tick (checkDifficulty)  *)
(*   tpl    the number of the template sendNewMiningJob was called with    *)
(*   pc     the await the invocation is suspended at, or done/threw        *)
(*   wfail  the write it awaits has failed                                 *)
(*   hashRate, job   the locals of sendNewMiningJob, once assigned         *)

NewTask(kind, tpl, pc, wfail) == [kind |-> kind, tpl |-> tpl, pc |-> pc, wfail |-> wfail,
                                  hashRate |-> None, job |-> None]

\* hash rates, in TH/s: line 347 compares with 50000000000000 H/s
FeeHashRate == 50
HashRates == {0, 49, 50}

\* the fee test without its exclusion of a hash rate of 0
PayoutInformationBelow(hashRate, devFeeAddress, address) ==
    IF hashRate < FeeHashRate \/ devFeeAddress = None \/ Len(Get(devFeeAddress)) < 1
    THEN << [address |-> address, percent |-> 1000] >>
    ELSE << [address |-> Get(devFeeAddress), percent |-> 15],
            [address |-> address, percent |-> 985] >>

\* lines 345-358: the payout list of a job, percents in tenths of a percent
PayoutInformation(hashRate, devFeeAddress, address) ==
    LET noFee == hashRate # 0 /\ hashRate < FeeHashRate
    IN  IF noFee \/ devFeeAddress = None \/ Len(Get(devFeeAddress)) < 1
        THEN << [address |-> address, percent |-> 1000] >>
        ELSE << [address |-> Get(devFeeAddress), percent |-> 15],
                [address |-> address, percent |-> 985] >>

\* job.response(jobTemplate): the clean_jobs parameter of mining.notify is
\* the template's clearJobs flag
NotifyCleanJobs(tpl) == tpl.clearJobs

\* newMiningJob$ emits template n: every checkDifficulty waiting in
\* firstValueFrom gets it and calls sendNewMiningJob, which awaits the
\* hash rate
Woken(ts, n) ==
    [i \in 1..Len(ts) |->
        IF ts[i].pc = "firstValue"
        THEN [ts[i] EXCEPT !.pc = "hashRate", !.tpl = n]
        ELSE ts[i]]

\* lines 308-311: a live subscription starts sendNewMiningJob for the
\* template, which awaits the hash rate
Delivered(ts, live, n) ==
    IF live THEN Append(Woken(ts, n), NewTask("push", n, "hashRate", FALSE))
    ELSE Woken(ts, n)

\* the registry after a new template: a template with clearJobs drops the
\* jobs built from earlier ones
Published(reg, clear) ==
    [reg EXCEPT !.templates = Append(@, [id |-> Len(@) + 1, clearJobs |-> clear,
                                         networkDifficulty |-> NetworkDifficulty]),
                !.jobs = IF clear THEN {} ELSE @]

Publish(clear) ==
    /\ fuel.templates > 0
    /\ registry' = Published(registry, clear)
    /\ tasks' = Delivered(tasks, client.stratumSubscription = "live", Len(registry.templates) + 1)
    /\ fuel' = [fuel EXCEPT !.templates = @ - 1]
    /\ UNCHANGED <<client, socket, hs, stores, destroyed>>

\* lines 361-371: the job built for a template
NewJob(reg, tplId, payout) == [id |-> reg.nextId, tpl |-> tplId, payoutInformation |-> payout]

\* stratumV1JobsService.getNextId and addJob
JobAdded(reg, job) == [reg EXCEPT !.jobs = @ \cup {job}, !.nextId = @ + 1]

\* lines 342 and 361: the locals hashRate and job of sendNewMiningJob
JobBuilt(task, rate, job) == [task EXCEPT !.hashRate = Some(rate), !.job = Some(job)]

\* lines 370-374: a failed write of mining.notify is caught and logged
NotifyWritten(task, wok) == [task EXCEPT !.pc = "notifyWrite", !.wfail = ~wok]

\* the subscriber without its catch
HashRateFailedSilent(task, sock) == sock

\* lines 312-315: the subscriber's catch ends the socket; checkDifficulty is
\* called by the timer with no catch
HashRateFailed(task, sock) == IF task.kind = "push" THEN End(sock) ELSE sock

\* lines 342-371: getHashRateForSession returns; the job is built, added
\* to the registry and written
AfterHashRate(t) ==
    /\ tasks[t].pc = "hashRate"
    /\ \E ok \in StoreOutcomes : \E rate \in stores.hashRates : \E wok \in WriteOutcomes :
         IF ok
         THEN LET job == NewJob(registry, tasks[t].tpl,
                                PayoutInformation(rate, stores.devFeeAddress,
                                                  Get(client.clientAuthorization)))
                  line == NotifyLine(tasks[t].tpl,
                                     NotifyCleanJobs(TemplateById(registry, tasks[t].tpl)),
                                     tasks[t].kind)
              IN  /\ registry' = JobAdded(registry, job)
                  /\ socket' = Write(socket, line, wok)
                  /\ tasks' = [tasks EXCEPT ![t] = NotifyWritten(JobBuilt(@, rate, job), wok)]
                  /\ UNCHANGED fuel
         ELSE /\ tasks' = [tasks EXCEPT ![t] = At(@, "threw")]
              /\ socket' = HashRateFailed(tasks[t], socket)
              /\ fuel' = FuelAfterStore(FALSE)
              /\ UNCHANGED registry
    /\ UNCHANGED <<client, hs, stores, destroyed>>

\* lines 371-379: the write of mining.notify has settled
AfterNotifyWrite(t) ==
    /\ tasks[t].pc = "notifyWrite"
    /\ tasks' = [tasks EXCEPT ![t] = At(@, "done")]
    /\ UNCHANGED <<client, socket, hs, registry, stores, destroyed, fuel>>

\* statistics.getSuggestedDifficulty: null, or a difficulty
VardiffOutcomes == {None} \cup {Some(d) : d \in VardiffValues}

\* lines 478-483
AdjustWanted(target, c) == target # None /\ Get(target) # c.sessionDifficulty

\* lines 318-321 and 477-494: the timer calls checkDifficulty
Tick ==
    /\ client.backgroundWork = "running"
    /\ fuel.ticks > 0
    /\ \E target \in VardiffOutcomes : \E wok \in WriteOutcomes :
         IF AdjustWanted(target, client)
         THEN /\ client' = [client EXCEPT !.sessionDifficulty = Get(target)]
              /\ socket' = Write(socket, SetDifficultyLine(Get(target), "tick"), wok)
              /\ tasks' = Append(tasks, NewTask("tick", 0, "tickWrite", ~wok))
              /\ fuel' = [fuel EXCEPT !.ticks = @ - 1]
         ELSE /\ fuel' = [fuel EXCEPT !.ticks = @ - 1]
              /\ UNCHANGED <<client, socket, tasks>>
    /\ UNCHANGED <<hs, registry, stores, destroyed>>

\* lines 493-501: the write of set_difficulty has settled; on failure the
\* socket is ended, else the next template is awaited
AfterTickWrite(t) ==
    /\ tasks[t].pc = "tickWrite"
    /\ tasks' = [tasks EXCEPT ![t] = At(@, IF tasks[t].wfail THEN "done" ELSE "firstValue")]
    /\ socket' = IF tasks[t].wfail THEN End(socket) ELSE socket
    /\ UNCHANGED <<client, hs, registry, stores, destroyed, fuel>>

\* lines 84-91
Destroyed(c) ==
    [c EXCEPT !.stratumSubscription = IF @ # "null" THEN "closed" ELSE @,
              !.backgroundWork = IF @ # "null" THEN "cleared" ELSE @]

Destroy ==
    /\ ~destroyed
    /\ fuel.destroys > 0
    /\ destroyed' = TRUE
    /\ client' = Destroyed(client)
    /\ fuel' = [fuel EXCEPT !.destroys = @ - 1]
    /\ UNCHANGED <<socket, hs, tasks, registry, stores>>

----------------------------------------------------------------------------
(* Messages *)

Msg(method, valid, arg) == [method |-> method, valid |-> valid, arg |-> arg]

\* the messages of each method whose validation outcome is in V
SubscribeMessages(V) == {Msg(SUBSCRIBE, v, ua) : v \in V, ua \in UserAgents}
AuthorizeMessages(V) == {Msg(AUTHORIZE, v, a) : v \in V, a \in Addresses}
ConfigureMessages(V) == {Msg(CONFIGURE, v, "1fffe000") : v \in V}
SuggestMessages(V) == {Msg(SUGGEST_DIFFICULTY, v, d) : v \in V, d \in SuggestedValues}
OtherMessages == {Msg(UNKNOWN_METHOD, TRUE, "none"), Msg(INVALID_JSON, FALSE, "none")}
SubmitMessages(V, J, D) == {Msg(SUBMIT, v, [jobId |-> j, share |-> d]) :
                               v \in V, j \in J, d \in D}

Handlers == 1..Len(hs)
Tasks == 1..Len(tasks)

----------------------------------------------------------------------------
(* The handshake: subscribe, authorize, suggest_difficulty and a message   *)
(* of an unknown method, in any order and interleaving                     *)

NoFuel == [messages |-> 0, submits |-> 0, templates |-> 0, ticks |-> 0,
           storeFailures |-> 0, destroys |-> 0]

HandshakeFuel == [NoFuel EXCEPT !.messages = MaxMessages, !.storeFailures = MaxStoreFailures]

HandshakeMessages ==
    SubscribeMessages({TRUE}) \cup AuthorizeMessages({TRUE})
        \cup {Msg(SUGGEST_DIFFICULTY, TRUE, Tenths(512)), Msg(UNKNOWN_METHOD, TRUE, "none")}

InitHandshake == InitWith(HandshakeFuel, {None})

NextHandshake ==
    \/ \E m \in HandshakeMessages : Receive(m)
    \/ \E h \in Handlers : AfterValidateHandshake(h)
    \/ \E h \in Handlers : AfterValidateSuggest(h)
    \/ \E h \in Handlers : AfterResponseWrite(h)
    \/ \E h \in Handlers : AfterSuggestWrite(h)
    \/ \E h \in Handlers : AfterSetDifficultyWrite(h)
    \/ \E h \in Handlers : AfterInsert(h)

SpecHandshake == InitHandshake /\ [][NextHandshake]_vars

----------------------------------------------------------------------------
(* suggest_difficulty with two values, around a handshake                  *)

SuggestSpecMessages ==
    SuggestMessages({TRUE}) \cup {Msg(SUBSCRIBE, TRUE, "cgminer")} \cup AuthorizeMessages({TRUE})

NextSuggest ==
    \/ \E m \in SuggestSpecMessages : Receive(m)
    \/ \E h \in Handlers : AfterValidateHandshake(h)
    \/ \E h \in Handlers : AfterValidateSuggest(h)
    \/ \E h \in Handlers : AfterResponseWrite(h)
    \/ \E h \in Handlers : AfterSuggestWrite(h)
    \/ \E h \in Handlers : AfterSetDifficultyWrite(h)
    \/ \E h \in Handlers : AfterInsert(h)

SpecSuggest == InitHandshake /\ [][NextSuggest]_vars

----------------------------------------------------------------------------
(* Shares: a handshake, templates and their job pushes, and submissions    *)

SubmitFuel == [NoFuel EXCEPT !.messages = 2, !.submits = MaxSubmits, !.templates = 1,
                             !.storeFailures = MaxStoreFailures]

\* the two messages of a plain handshake
JobsSpecMessages == {Msg(SUBSCRIBE, TRUE, "cgminer")} \cup AuthorizeMessages({TRUE})

SubmitSpecMessages == JobsSpecMessages \cup SubmitMessages({TRUE}, {1}, ShareDifficulties)

InitSubmit == InitWith(SubmitFuel, {None})

NextSubmit ==
    \/ \E m \in SubmitSpecMessages : Receive(m)
    \/ \E h \in Handlers : AfterValidateHandshake(h)
    \/ \E h \in Handlers : AfterResponseWrite(h)
    \/ \E h \in Handlers : AfterSetDifficultyWrite(h)
    \/ \E h \in Handlers : AfterInsert(h)
    \/ \E h \in Handlers : AfterValidateSubmit(h)
    \/ \E h \in Handlers : AfterLowDifficultyWrite(h)
    \/ \E h \in Handlers : AfterSubmitBlock(h)
    \/ \E h \in Handlers : AfterBlocksSave(h)
    \/ \E h \in Handlers : AfterNotifyBlock(h)
    \/ \E h \in Handlers : AfterReset(h)
    \/ \E h \in Handlers : AfterAddSubmission(h)
    \/ \E h \in Handlers : AfterUpdateBest(h)
    \/ \E h \in Handlers : AfterGetSettings(h)
    \/ \E h \in Handlers : AfterAddressUpdateBest(h)
    \/ Publish(FALSE)
    \/ \E t \in Tasks : AfterHashRate(t)
    \/ \E t \in Tasks : AfterNotifyWrite(t)

SpecSubmit == InitSubmit /\ [][NextSubmit]_vars

----------------------------------------------------------------------------
(* Shares of an active session: as above, but a submission arrives only    *)
(* once the job it names is in the registry                                *)

SharesFuel == [NoFuel EXCEPT !.messages = 2, !.submits = MaxShares, !.templates = 1,
                             !.storeFailures = MaxStoreFailures]

NextShares ==
    \/ \E m \in JobsSpecMessages : Receive(m)
    \/ \E m \in SubmitMessages({TRUE}, {1}, ShareDifficulties) :
          HasJob(registry, m.arg.jobId) /\ Receive(m)
    \/ \E h \in Handlers : AfterValidateHandshake(h)
    \/ \E h \in Handlers : AfterResponseWrite(h)
    \/ \E h \in Handlers : AfterSetDifficultyWrite(h)
    \/ \E h \in Handlers : AfterInsert(h)
    \/ \E h \in Handlers : AfterValidateSubmit(h)
    \/ \E h \in Handlers : AfterLowDifficultyWrite(h)
    \/ \E h \in Handlers : AfterSubmitBlock(h)
    \/ \E h \in Handlers : AfterBlocksSave(h)
    \/ \E h \in Handlers : AfterNotifyBlock(h)
    \/ \E h \in Handlers : AfterReset(h)
    \/ \E h \in Handlers : AfterAddSubmission(h)
    \/ \E h \in Handlers : AfterUpdateBest(h)
    \/ \E h \in Handlers : AfterGetSettings(h)
    \/ \E h \in Handlers : AfterAddressUpdateBest(h)
    \/ Publish(FALSE)
    \/ \E t \in Tasks : AfterHashRate(t)
    \/ \E t \in Tasks : AfterNotifyWrite(t)

SpecShares == InitWith(SharesFuel, {None}) /\ [][NextShares]_vars

----------------------------------------------------------------------------
(* Jobs: a handshake, templates and their job pushes, the background tick  *)
(* and destroy()                                                           *)

JobsFuel == [NoFuel EXCEPT !.messages = 2, !.templates = MaxTemplates, !.ticks = MaxTicks,
                           !.storeFailures = MaxStoreFailures, !.destroys = 1]

InitJobs == InitWith(JobsFuel, {None})

NextJobs ==
    \/ \E m \in JobsSpecMessages : Receive(m)
    \/ \E h \in Handlers : AfterValidateHandshake(h)
    \/ \E h \in Handlers : AfterResponseWrite(h)
    \/ \E h \in Handlers : AfterSetDifficultyWrite(h)
    \/ \E h \in Handlers : AfterInsert(h)
    \/ \E clear \in BOOLEAN : Publish(clear)
    \/ \E t \in Tasks : AfterHashRate(t)
    \/ \E t \in Tasks : AfterNotifyWrite(t)
    \/ Tick
    \/ \E t \in Tasks : AfterTickWrite(t)
    \/ Destroy

SpecJobs == InitJobs /\ [][NextJobs]_vars

----------------------------------------------------------------------------
(* Lookups: an active session submits shares for job 1, which is in the    *)
(* registry once a template was pushed, and for job 2, which never is      *)

LookupMessages == SubmitMessages({TRUE}, {1, 2}, {Tenths(20000)})

NextLookup ==
    \/ \E m \in JobsSpecMessages : Receive(m)
    \/ \E m \in LookupMessages : Active(client) /\ Receive(m)
    \/ \E h \in Handlers : AfterValidateHandshake(h)
    \/ \E h \in Handlers : AfterResponseWrite(h)
    \/ \E h \in Handlers : AfterSetDifficultyWrite(h)
    \/ \E h \in Handlers : AfterInsert(h)
    \/ \E h \in Handlers : AfterValidateSubmit(h)
    \/ \E h \in Handlers : AfterAddSubmission(h)
    \/ \E h \in Handlers : AfterUpdateBest(h)
    \/ \E h \in Handlers : AfterGetSettings(h)
    \/ \E h \in Handlers : AfterAddressUpdateBest(h)
    \/ Publish(FALSE)
    \/ \E t \in Tasks : AfterHashRate(t)
    \/ \E t \in Tasks : AfterNotifyWrite(t)

SpecLookup == InitWith(SharesFuel, {None}) /\ [][NextLookup]_vars

----------------------------------------------------------------------------
(* Concurrent shares: an active session submits several shares for job 1,  *)
(* whose handlers overlap; no store call fails                             *)

ConcurrentFuel == [NoFuel EXCEPT !.messages = 2, !.submits = MaxConcurrent, !.templates = 1]

NextConcurrent ==
    \/ \E m \in JobsSpecMessages : Receive(m)
    \/ \E m \in SubmitMessages({TRUE}, {1}, ShareDifficulties) :
          HasJob(registry, m.arg.jobId) /\ Receive(m)
    \/ \E h \in Handlers : AfterValidateHandshake(h)
    \/ \E h \in Handlers : AfterResponseWrite(h)
    \/ \E h \in Handlers : AfterSetDifficultyWrite(h)
    \/ \E h \in Handlers : AfterInsert(h)
    \/ \E h \in Handlers : AfterValidateSubmit(h)
    \/ \E h \in Handlers : AfterLowDifficultyWrite(h)
    \/ \E h \in Handlers : AfterSubmitBlock(h)
    \/ \E h \in Handlers : AfterBlocksSave(h)
    \/ \E h \in Handlers : AfterNotifyBlock(h)
    \/ \E h \in Handlers : AfterReset(h)
    \/ \E h \in Handlers : AfterAddSubmission(h)
    \/ \E h \in Handlers : AfterUpdateBest(h)
    \/ \E h \in Handlers : AfterGetSettings(h)
    \/ \E h \in Handlers : AfterAddressUpdateBest(h)
    \/ Publish(FALSE)
    \/ \E t \in Tasks : AfterHashRate(t)
    \/ \E t \in Tasks : AfterNotifyWrite(t)

SpecConcurrent == InitWith(ConcurrentFuel, {None}) /\ [][NextConcurrent]_vars

----------------------------------------------------------------------------
(* Answers: every kind of mining.submit, two of them at most, on an active *)
(* session                                                                 *)

AnswerFuel == [NoFuel EXCEPT !.messages = 2, !.submits = 2, !.templates = 1,
                             !.storeFailures = MaxStoreFailures]

AnswerMessages ==
    SubmitMessages({TRUE}, {1}, {Tenths(100), Tenths(20000), Tenths(70000)})
        \cup SubmitMessages({FALSE}, {1}, {Tenths(20000)})
        \cup SubmitMessages({TRUE}, {2}, {Tenths(20000)})

NextAnswer ==
    \/ \E m \in JobsSpecMessages : Receive(m)
    \/ \E m \in AnswerMessages :
          Active(client) /\ Receive(m)
    \/ \E h \in Handlers : AfterValidateHandshake(h)
    \/ \E h \in Handlers : AfterResponseWrite(h)
    \/ \E h \in Handlers : AfterSetDifficultyWrite(h)
    \/ \E h \in Handlers : AfterInsert(h)
    \/ \E h \in Handlers : AfterValidateSubmit(h)
    \/ \E h \in Handlers : AfterLowDifficultyWrite(h)
    \/ \E h \in Handlers : AfterSubmitBlock(h)
    \/ \E h \in Handlers : AfterBlocksSave(h)
    \/ \E h \in Handlers : AfterNotifyBlock(h)
    \/ \E h \in Handlers : AfterReset(h)
    \/ \E h \in Handlers : AfterAddSubmission(h)
    \/ \E h \in Handlers : AfterUpdateBest(h)
    \/ \E h \in Handlers : AfterGetSettings(h)
    \/ \E h \in Handlers : AfterAddressUpdateBest(h)
    \/ Publish(FALSE)
    \/ \E t \in Tasks : AfterHashRate(t)
    \/ \E t \in Tasks : AfterNotifyWrite(t)

SpecAnswer == InitWith(AnswerFuel, {None}) /\ [][NextAnswer]_vars

----------------------------------------------------------------------------
(* class MiningJob of lines 537-664: the job built from a block template.  *)
(* A hash is a tree: sha256 is taken to be free of collisions, so that two *)
(* hashes are equal exactly if they were computed from the same data.      *)

TxIds == 1..MaxTransactions

\* tx.hash of a template transaction
TxHash(i) == <<i>>

\* line 576: sha256(coinb1 + coinb2)
CoinbaseHash == <<0>>

\* merkletreejs with isBitcoinTree: the parent of two nodes is the double
\* hash of their concatenation
HashPair(left, right) == <<left, right>>

\* merkletreejs with isBitcoinTree: the layer above, the last node paired
\* with itself when the layer has odd size
NextLayer(layer) ==
    [i \in 1..((Len(layer) + 1) \div 2) |->
        HashPair(layer[2 * i - 1],
                 IF 2 * i <= Len(layer) THEN layer[2 * i] ELSE layer[2 * i - 1])]

\* tree.getLayers(): the leaves, then every layer up to the root
RECURSIVE GetLayers(_)
GetLayers(layer) ==
    IF Len(layer) <= 1 THEN <<layer>> ELSE <<layer>> \o GetLayers(NextLayer(layer))

\* lines 563, 578: the transaction hashes with the coinbase hash in front
Leaves(blockTemplate) ==
    <<CoinbaseHash>> \o [i \in 1..Len(blockTemplate.transactions) |->
                            TxHash(blockTemplate.transactions[i])]

\* lines 585-589: layer[0] of every layer
MerkleBranch(layers) == [i \in 1..Len(layers) |-> layers[i][1]]

\* lines 553-594: the constructor
MiningJob(blockTemplate) ==
    [clean_jobs |-> FALSE,
     merkle_branch |-> MerkleBranch(GetLayers(Leaves(blockTemplate)))]

\* the transaction lists of the templates: up to MaxTransactions distinct
\* transactions
BlockTransactions ==
    {txs \in UNION {[1..n -> TxIds] : n \in 0..MaxTransactions} :
        \A i, j \in DOMAIN txs : i # j => txs[i] # txs[j]}

MerkleFuel == [NoFuel EXCEPT !.templates = 1]

InitMerkle ==
    /\ client = InitClient
    /\ socket = [ended |-> FALSE, broken |-> FALSE, out |-> <<>>]
    /\ hs = <<>>
    /\ tasks = <<>>
    /\ \E txs \in BlockTransactions :
         registry = [templates |-> << [transactions |-> txs] >>, jobs |-> {}, nextId |-> 1]
    /\ stores = [shares |-> {}, addressBest |-> 0, devFeeAddress |-> None, hashRates |-> {0}]
    /\ destroyed = FALSE
    /\ fuel = MerkleFuel

\* new MiningJob(blockTemplate)
Construct ==
    /\ fuel.templates > 0
    /\ registry' = [registry EXCEPT !.jobs = @ \cup {MiningJob(registry.templates[1])}]
    /\ fuel' = [fuel EXCEPT !.templates = @ - 1]
    /\ UNCHANGED <<client, socket, hs, tasks, stores, destroyed>>

NextMerkle == Construct

SpecMerkle == InitMerkle /\ [][NextMerkle]_vars

----------------------------------------------------------------------------
(* Validation failures: a cpuminer handshake with a suggest_difficulty,    *)
(* and messages of the five methods that fail validation                   *)

InvalidFuel == [NoFuel EXCEPT !.messages = 3, !.submits = 1]

ValidMessages ==
    {Msg(SUBSCRIBE, TRUE, "cpuminer"), Msg(SUGGEST_DIFFICULTY, TRUE, Tenths(512))}
        \cup AuthorizeMessages({TRUE})

InvalidMessages ==
    {Msg(SUBSCRIBE, FALSE, "cpuminer"), Msg(SUGGEST_DIFFICULTY, FALSE, Tenths(512))}
        \cup ConfigureMessages({FALSE}) \cup AuthorizeMessages({FALSE})
        \cup SubmitMessages({FALSE}, {1}, {Tenths(20000)})

InvalidReceived == Cardinality({h \in Handlers : ~hs[h].msg.valid})

NextInvalid ==
    \/ \E m \in ValidMessages : Receive(m)
    \/ \E m \in InvalidMessages : InvalidReceived < MaxInvalid /\ Receive(m)
    \/ \E h \in Handlers : AfterValidateHandshake(h)
    \/ \E h \in Handlers : AfterValidateSuggest(h)
    \/ \E h \in Handlers : AfterValidateSubmit(h)
    \/ \E h \in Handlers : AfterResponseWrite(h)
    \/ \E h \in Handlers : AfterSuggestWrite(h)
    \/ \E h \in Handlers : AfterSetDifficultyWrite(h)
    \/ \E h \in Handlers : AfterInsert(h)

SpecInvalid == InitWith(InvalidFuel, {None}) /\ [][NextInvalid]_vars

----------------------------------------------------------------------------
(* Greeting: subscribe, authorize and suggest_difficulty in any order and  *)
(* interleaving, and the job pushes that follow the handshake              *)

GreetingFuel == [NoFuel EXCEPT !.messages = MaxMessages, !.templates = 1,
                               !.storeFailures = MaxStoreFailures]

GreetingMessages == JobsSpecMessages \cup {Msg(SUGGEST_DIFFICULTY, TRUE, Tenths(512))}

NextGreeting ==
    \/ \E m \in GreetingMessages : Receive(m)
    \/ \E h \in Handlers : AfterValidateHandshake(h)
    \/ \E h \in Handlers : AfterValidateSuggest(h)
    \/ \E h \in Handlers : AfterResponseWrite(h)
    \/ \E h \in Handlers : AfterSuggestWrite(h)
    \/ \E h \in Handlers : AfterSetDifficultyWrite(h)
    \/ \E h \in Handlers : AfterInsert(h)
    \/ Publish(FALSE)
    \/ \E t \in Tasks : AfterHashRate(t)
    \/ \E t \in Tasks : AfterNotifyWrite(t)

SpecGreeting == InitWith(GreetingFuel, {None}) /\ [][NextGreeting]_vars

----------------------------------------------------------------------------
(* Payout: a handshake and job pushes, for every configured dev fee        *)
(* address and every hash rate                                             *)

PayoutFuel == [NoFuel EXCEPT !.messages = 2, !.templates = 2,
                             !.storeFailures = MaxStoreFailures]

InitPayout == InitEnv(PayoutFuel, DevFeeAddresses, HashRates)

NextPayout ==
    \/ \E m \in JobsSpecMessages : Receive(m)
    \/ \E h \in Handlers : AfterValidateHandshake(h)
    \/ \E h \in Handlers : AfterResponseWrite(h)
    \/ \E h \in Handlers : AfterSetDifficultyWrite(h)
    \/ \E h \in Handlers : AfterInsert(h)
    \/ \E clear \in BOOLEAN : Publish(clear)
    \/ \E t \in Tasks : AfterHashRate(t)
    \/ \E t \in Tasks : AfterNotifyWrite(t)

SpecPayout == InitPayout /\ [][NextPayout]_vars

----------------------------------------------------------------------------
(* Job pushes under fair scheduling: an awaited call settles and the event *)
(* loop resumes the function that awaits it                                *)

LiveFuel == [NoFuel EXCEPT !.messages = 2, !.templates = MaxTemplates,
                           !.storeFailures = MaxStoreFailures]

Fairness ==
    \A t \in 1..MaxTemplates :
        WF_vars(t \in Tasks /\ AfterHashRate(t)) /\ WF_vars(t \in Tasks /\ AfterNotifyWrite(t))

SpecLive == InitWith(LiveFuel, {None}) /\ [][NextPayout]_vars /\ Fairness

----------------------------------------------------------------------------
(* Properties *)

Finished(rec) == rec.pc \in {"done", "threw"}

\* the external calls of the submit pipeline
PipelineCalls == {"getJobById", "SUBMIT_BLOCK", "save", "notifySubscribersBlockFound",
                  "resetBestDifficultyAndShares", "addSubmission", "updateBestDifficulty",
                  "getSettings", "addressUpdateBestDifficulty"}

Lines == DOMAIN socket.out
IsNotify(i) == socket.out[i].kind = "notify"

\* C1: a mining.submit is processed as a share (job lookup, block
\* submission, share accounting, best-difficulty update) only while the
\* session is Active, that is registered with the client store and
\* subscribed to jobs: no step of a handler makes a call of the submit
\* pipeline in a state where the session is not Active.
C1_SubmitOnlyWhenActive ==
    [][\A h \in Handlers :
          (hs'[h].calls \ hs[h].calls) \cap PipelineCalls # {} => Active(client)]_vars

\* handler h handles a mining.suggest_difficulty that is not the first
LaterSuggest(h) ==
    /\ hs[h].msg.method = SUGGEST_DIFFICULTY
    /\ \E g \in 1..(h - 1) : hs[g].msg.method = SUGGEST_DIFFICULTY

\* C2: only the first mining.suggest_difficulty mutates the session: no
\* step of the handler of a later one changes session_difficulty, the
\* recorded suggestion or the latch, or writes a line.
C2_OnlyFirstSuggestMutates ==
    [][\A h \in Handlers :
          (LaterSuggest(h) /\ hs'[h] # hs[h]) =>
              /\ client'.sessionDifficulty = client.sessionDifficulty
              /\ client'.clientSuggestedDifficulty = client.clientSuggestedDifficulty
              /\ client'.usedSuggestedDifficulty = client.usedSuggestedDifficulty
              /\ socket'.out = socket.out]_vars

AtMostOnce(name) == Cardinality({h \in Handlers : name \in hs[h].calls}) <= 1

\* the state part of C3
C3_State ==
    /\ client.stratumInitialized => BothPresent(client)
    /\ \A h \in Handlers :
          (hs[h].madeBoth /\ hs[h].pc = "done") => client.stratumInitialized
    /\ Cardinality({h \in Handlers : hs[h].completion}) <= 1
    /\ AtMostOnce("insert") /\ AtMostOnce("subscribe") /\ AtMostOnce("setInterval")
    /\ (client.stratumSubscription # "null" \/ client.backgroundWork # "null")
          => \E h \in Handlers : hs[h].completion /\ "subscribe" \in hs[h].calls

\* C3: the session is initialized only if a subscription and an
\* authorization are recorded; once the handler of the message that made
\* both present has returned, the session is initialized; the completion
\* block is entered, clientService.insert called, the job subscription made
\* and the timer started at most once each; and the initialized flag never
\* reverts to false.
C3_InitializedOnce ==
    /\ []C3_State
    /\ [][client.stratumInitialized => client'.stratumInitialized]_vars

\* C3's case: three handlers were started, the one that made both slots
\* present is not the one that ran the completion block, and the session
\* is registered.
C3_Witness ==
    /\ Len(hs) = 3
    /\ \A h \in Handlers : hs[h].pc = "done"
    /\ \E g, h \in Handlers : g # h /\ hs[g].madeBoth /\ hs[h].completion
    /\ Active(client)

\* C4: the messages of a session are handled strictly in order: a handler
\* is started only when every earlier one has finished, so only the last
\* handler can be unfinished, and the responses are written in the order
\* of the requests.
C4_InOrder ==
    /\ \A g \in Handlers : ~Finished(hs[g]) => g = Len(hs)
    /\ \A i, j \in Lines :
          (i < j /\ socket.out[i].by = "handler" /\ socket.out[j].by = "handler")
              => socket.out[i].id <= socket.out[j].id

\* C5 as stated: BlockStore.save is called, and the counters are reset,
\* only if submit_block returned null.
C5_SaveOnlyIfAccepted ==
    \A h \in Handlers :
        /\ "save" \in hs[h].calls => hs[h].blockResult = "null"
        /\ "resetBestDifficultyAndShares" \in hs[h].calls => hs[h].blockResult = "null"

\* C5 amended: for a share at network difficulty, submit_block is called
\* and, whatever it returned, BlockStore.save is called next; the counters
\* are reset if and only if submit_block returned null.
C5_SaveAlwaysResetIfAccepted ==
    \A h \in Handlers :
        /\ hs[h].blockResult # "none" <=> "save" \in hs[h].calls
        /\ "save" \in hs[h].calls =>
              /\ "SUBMIT_BLOCK" \in hs[h].calls
              /\ SubmissionDifficulty(hs[h].msg) >= NetworkDifficulty
        /\ "resetBestDifficultyAndShares" \in hs[h].calls => hs[h].blockResult = "null"
        /\ ("addSubmission" \in hs[h].calls /\ hs[h].blockResult = "null")
              => "resetBestDifficultyAndShares" \in hs[h].calls

\* C5's case: a block was rejected by submit_block, saved all the same, not
\* followed by a reset, and the handler has finished.
C5_Witness ==
    \E h \in Handlers :
        /\ hs[h].blockResult = "rejected"
        /\ "save" \in hs[h].calls
        /\ "resetBestDifficultyAndShares" \notin hs[h].calls
        /\ hs[h].pc = "done"

\* C6: once destroy() has been called, at whatever point of the session's
\* life, the session holds no live job subscription and no running timer.
C6_DestroyReleases ==
    destroyed => (client.stratumSubscription # "live" /\ client.backgroundWork # "running")

\* C7: the mining.notify forced by a tick that changed the difficulty
\* carries clean_jobs = true, whatever the template's clearJobs flag.
C7_TickNotifyClean ==
    \A i \in Lines : (IsNotify(i) /\ socket.out[i].by = "tick") => socket.out[i].clean

\* C8: a failed socket write closes the session: when the handler or the
\* task whose write failed has finished, the socket has been ended.
C8_FailedWriteCloses ==
    /\ \A h \in Handlers : (hs[h].failed = "write" /\ Finished(hs[h])) => socket.ended
    /\ \A t \in Tasks : (tasks[t].wfail /\ Finished(tasks[t])) => socket.ended

\* the store calls of the submit pipeline
StoreCalls == {"save", "resetBestDifficultyAndShares", "addSubmission",
               "updateBestDifficulty", "getSettings", "addressUpdateBestDifficulty"}

\* C9: an error of a store call of the submit pipeline that does not
\* indicate a duplicate leaves the outcome as it was: when the handler has
\* finished, the acknowledgement has been written and the socket has not
\* been ended (on a connection that did not break).
C9_StoreErrorKeepsAck ==
    \A h \in Handlers :
        (hs[h].failed \in StoreCalls /\ Finished(hs[h]) /\ ~socket.broken)
            => /\ ~socket.ended
               /\ \E i \in Lines : socket.out[i] = ResultLine(h)

\* C10: the session's job sequence is monotone: a mining.notify built from
\* a template is never written after one built from a later template.
C10_MonotoneJobs ==
    \A i, j \in Lines :
        (i < j /\ IsNotify(i) /\ IsNotify(j)) => socket.out[i].val <= socket.out[j].val

----------------------------------------------------------------------------
(* Payout policy *)

\* the job a finished or writing push has built, with what it was built from
Built == {t \in Tasks : tasks[t].job # None}
Single(address) == << [address |-> address, percent |-> 1000] >>
Split(dev, address) == << [address |-> dev, percent |-> 15],
                          [address |-> address, percent |-> 985] >>
Unset(dev) == dev = None \/ dev = Some("")
Miner == Get(client.clientAuthorization)
PercentSum(p) == IF Len(p) = 1 THEN p[1].percent ELSE p[1].percent + p[2].percent

\* C11 as stated: the payout list of every job is the single entry (miner,
\* 100%) if the hash rate is below 50 TH/s (0 included) or DEV_FEE_ADDRESS
\* is unset or empty, and (dev fee address, 1.5%), (miner, 98.5%) in every
\* other case; the percentages sum to 100.
C11_SingleBelowThreshold ==
    \A t \in Built :
        LET p == Get(tasks[t].job).payoutInformation
            rate == Get(tasks[t].hashRate)
            dev == stores.devFeeAddress
        IN  /\ (rate < FeeHashRate \/ Unset(dev)) => p = Single(Miner)
            /\ ~(rate < FeeHashRate \/ Unset(dev)) => p = Split(Get(dev), Miner)
            /\ PercentSum(p) = 1000

\* C11 amended: the payout list of every job is the single entry (miner,
\* 100%) if the hash rate is not 0 and below 50 TH/s, or DEV_FEE_ADDRESS is
\* unset or empty; in every other case, a hash rate of 0 included, it is
\* (dev fee address, 1.5%), (miner, 98.5%); the percentages sum to 100.
C11_SingleBelowThresholdUnlessZero ==
    \A t \in Built :
        LET p == Get(tasks[t].job).payoutInformation
            rate == Get(tasks[t].hashRate)
            dev == stores.devFeeAddress
            noFee == (rate # 0 /\ rate < FeeHashRate) \/ Unset(dev)
        IN  /\ noFee => p = Single(Miner)
            /\ ~noFee => p = Split(Get(dev), Miner)
            /\ PercentSum(p) = 1000

\* C11's case: a job was built for a session whose hash rate is 0 with a
\* dev fee address configured, and it pays the fee.
C11_Witness ==
    \E t \in Built :
        /\ Get(tasks[t].hashRate) = 0
        /\ ~Unset(stores.devFeeAddress)
        /\ Len(Get(tasks[t].job).payoutInformation) = 2

----------------------------------------------------------------------------
(* The handshake slots and the lines of the completion *)

\* C12: once the session is Active, no step changes the recorded
\* configuration, subscription or authorization: a mining.configure,
\* mining.subscribe or mining.authorize received then is not accepted.
C12_SlotsFixedWhenActive ==
    [][Active(client) =>
          /\ client'.clientConfiguration = client.clientConfiguration
          /\ client'.clientSubscription = client.clientSubscription
          /\ client'.clientAuthorization = client.clientAuthorization]_vars

\* the mining.set_difficulty lines written by the completion block
HandshakeLines == {i \in Lines : socket.out[i].kind = "set_difficulty"
                                    /\ socket.out[i].by = "handshake"}

\* handler h enters the completion block in this step
Completing(h) ==
    /\ h \in 1..Len(hs')
    /\ hs'[h].completion
    /\ h \in Handlers => ~hs[h].completion

\* the state part of C13
C13_State ==
    /\ Cardinality(HandshakeLines) <= 1
    /\ \A j \in Lines : IsNotify(j) =>
          /\ \E h \in Handlers : hs[h].completion /\ hs[h].pc = "done"
          /\ \A i \in HandshakeLines : i < j

\* the step part of C13
C13_Step ==
    /\ \A h \in 1..Len(hs') : Completing(h) =>
          IF client.clientSuggestedDifficulty = None
          THEN \/ socket'.out = Append(socket.out,
                                      SetDifficultyLine(client'.sessionDifficulty, "handshake"))
               \/ hs'[h].wfail /\ socket'.out = socket.out
          ELSE socket'.out = socket.out
    /\ (\A h \in 1..Len(hs') : ~Completing(h)) =>
          \A i \in DOMAIN socket'.out :
              (socket'.out[i].kind = "set_difficulty" /\ socket'.out[i].by = "handshake")
                  => i \in HandshakeLines

\* C13: if no mining.suggest_difficulty is recorded when the handshake
\* completes, the completion writes exactly one mining.set_difficulty
\* [session_difficulty] (unless that write fails), and none if one is
\* recorded; no other step writes one; it precedes every mining.notify;
\* and a mining.notify is written only once the completion has finished.
C13_SetDifficultyBeforeNotify ==
    /\ []C13_State
    /\ [][C13_Step]_vars

\* C13's case: the completion has written its mining.set_difficulty and a
\* mining.notify follows it.
C13_Witness ==
    \E i \in HandshakeLines : \E j \in Lines : IsNotify(j) /\ i < j

\* C14: the completion step sets session_difficulty to 0.1 if the recorded
\* user agent is cpuminer, whatever it was (default or suggested), and
\* leaves it unchanged for any other user agent; with cpuminer and no
\* suggestion recorded, the line it writes is mining.set_difficulty [0.1].
C14_CpuminerQuirk ==
    [][\A h \in 1..Len(hs') : Completing(h) =>
          /\ client'.sessionDifficulty =
                IF Get(client.clientSubscription) = "cpuminer"
                THEN CpuminerDifficulty ELSE client.sessionDifficulty
          /\ (Get(client.clientSubscription) = "cpuminer"
                 /\ client.clientSuggestedDifficulty = None /\ ~hs'[h].wfail)
                => socket'.out = Append(socket.out,
                                        SetDifficultyLine(CpuminerDifficulty, "handshake"))]_vars

\* C14's case: a cpuminer session completed its handshake after a
\* suggestion was recorded, and its difficulty is 0.1.
C14_Witness ==
    /\ client.stratumInitialized
    /\ Get(client.clientSubscription) = "cpuminer"
    /\ client.clientSuggestedDifficulty = Some(Tenths(512))
    /\ client.sessionDifficulty = CpuminerDifficulty
    /\ Active(client)

----------------------------------------------------------------------------
(* The answers to mining.submit *)

Written(line) == \E i \in Lines : socket.out[i] = line

\* handler h does the job lookup of handleMiningSubmission in this step
LooksUp(h) == "getJobById" \in hs'[h].calls /\ "getJobById" \notin hs[h].calls

\* the state part of C15
C15_State ==
    \A h \in Handlers : Written(ErrorLine(h, JobNotFound)) =>
        /\ hs[h].calls \cap PipelineCalls = {"getJobById"}
        /\ ~Written(ResultLine(h))
        /\ hs[h].pc \in {"responseWrite", "done"}
        /\ hs[h].failed = "none"

\* the step part of C15
C15_Step ==
    \A h \in Handlers :
        (LooksUp(h) /\ ~HasJob(registry, hs[h].msg.arg.jobId)) =>
            /\ hs'[h].calls = {"getJobById"}
            /\ hs'[h].pc = "responseWrite"
            /\ \/ socket'.out = Append(socket.out, ErrorLine(h, JobNotFound))
               \/ hs'[h].wfail /\ socket'.out = socket.out
            /\ socket'.ended = socket.ended

\* C15: a mining.submit whose job is not in the registry is answered with
\* error 21 and nothing else: its handler makes no call of the submit
\* pipeline but the lookup, writes no acknowledgement, and returns without
\* ending the socket.
C15_JobNotFound ==
    /\ []C15_State
    /\ [][C15_Step]_vars

\* C15's case: a submission was answered with error 21, its handler has
\* returned and the socket is open.
C15_Witness ==
    \E h \in Handlers :
        /\ Written(ErrorLine(h, JobNotFound))
        /\ hs[h].pc = "done"
        /\ ~socket.ended

\* the state part of C16
C16_State ==
    \A h \in Handlers :
        (Written(ErrorLine(h, LowDifficultyShare)) \/ hs[h].pc = "lowDifficultyWrite") =>
            /\ SubmissionDifficulty(hs[h].msg) < client.sessionDifficulty
            /\ hs[h].calls \cap PipelineCalls = {"getJobById"}
            /\ ~Written(ResultLine(h))

\* the step part of C16
C16_Step ==
    \A h \in Handlers :
        (LooksUp(h) /\ HasJob(registry, hs[h].msg.arg.jobId)) =>
            IF SubmissionDifficulty(hs[h].msg) < client.sessionDifficulty
            THEN /\ hs'[h].pc = "lowDifficultyWrite"
                 /\ \/ socket'.out = Append(socket.out, ErrorLine(h, LowDifficultyShare))
                    \/ hs'[h].wfail /\ socket'.out = socket.out
                 /\ client' = client
            ELSE /\ hs'[h].pc \in {"submitBlock", "addSubmission"}
                 /\ socket'.out = socket.out

\* C16: a submission whose difficulty is strictly below session_difficulty
\* is answered with error 23 and is not counted (no addSubmission, no
\* best-difficulty update, no submit_block, no acknowledgement); one whose
\* difficulty equals session_difficulty is not rejected as low.
C16_LowDifficulty ==
    /\ []C16_State
    /\ [][C16_Step]_vars

\* C16's case: a submission below the session difficulty was answered
\* with error 23 and its handler has returned.
C16_Witness ==
    \E h \in Handlers :
        /\ Written(ErrorLine(h, LowDifficultyShare))
        /\ hs[h].pc = "done"

\* C17: a share that met session and network difficulty and whose block
\* submit_block rejected remains credited: when its handler has finished
\* (on a connection that did not break), the subscribers were notified,
\* addSubmission was called, best_difficulty is at least the share's
\* difficulty and the acknowledgement was written.
C17_RejectedBlockCredited ==
    \A h \in Handlers :
        (hs[h].blockResult = "rejected" /\ Finished(hs[h]) /\ ~socket.broken) =>
            /\ "notifySubscribersBlockFound" \in hs[h].calls
            /\ "addSubmission" \in hs[h].calls
            /\ client.entity # None /\ Get(client.entity) >= SubmissionDifficulty(hs[h].msg)
            /\ Written(ResultLine(h))

----------------------------------------------------------------------------
(* best_difficulty *)

\* the submissions statistics.addSubmission has accepted
Accepted == {h \in Handlers : /\ hs[h].msg.method = SUBMIT
                               /\ "addSubmission" \in hs[h].calls
                               /\ hs[h].pc # "addSubmission"
                               /\ hs[h].failed \notin {"duplicate", "addSubmission"}}

RECURSIVE MaxDifficulty(_)
MaxDifficulty(H) ==
    IF H = {} THEN 0
    ELSE LET h == CHOOSE x \in H : TRUE
             rest == MaxDifficulty(H \ {h})
             d == SubmissionDifficulty(hs[h].msg)
         IN  IF d > rest THEN d ELSE rest

\* C18: once every handler has finished, the session's best_difficulty is
\* the maximum difficulty of its accepted shares (0 if none), and
\* best_difficulty never decreases, also when submissions overlap.
C18_BestIsMaximum ==
    /\ []((client.entity # None /\ \A h \in Handlers : Finished(hs[h]))
            => Get(client.entity) = MaxDifficulty(Accepted))
    /\ [][client.entity # None =>
            /\ client'.entity # None
            /\ Get(client'.entity) >= Get(client.entity)]_vars

----------------------------------------------------------------------------
(* Every live session eventually sees the latest job *)

\* the subscriber was called with template n
Pushed(n) == \E t \in Tasks : tasks[t].kind = "push" /\ tasks[t].tpl = n

\* a mining.notify of template n or of a newer one has been written
Notified(n) == \E i \in Lines : IsNotify(i) /\ socket.out[i].val >= n

\* the connection has not been ended and has not broken
Open(sock) == ~sock.ended /\ ~sock.broken

\* C19: a template published while the session is Active starts a push of
\* it, and under fair scheduling every push is followed, if the connection
\* stays open, by a mining.notify of its template or of a newer one.
C19_EventuallyNotified ==
    /\ [][(Len(registry'.templates) > Len(registry.templates) /\ Active(client))
            => /\ Len(tasks') > Len(tasks)
               /\ tasks'[Len(tasks')].kind = "push"
               /\ tasks'[Len(tasks')].tpl = Len(registry'.templates)]_vars
    /\ \A n \in 1..MaxTemplates : Pushed(n) ~> (Notified(n) \/ ~Open(socket))

\* C19's case: the last template was pushed and its mining.notify written
\* on an open connection.
C19_Witness ==
    /\ Pushed(MaxTemplates)
    /\ \E i \in Lines : IsNotify(i) /\ socket.out[i].val = MaxTemplates
    /\ Open(socket)

----------------------------------------------------------------------------
(* Messages that fail validation *)

\* handler h handles a message that fails validation
Invalid(rec) == ~rec.msg.valid /\ rec.msg.method # INVALID_JSON

\* the handshake slots, the suggestion and its latch are left as they are
SlotsUnchanged ==
    /\ client'.clientSubscription = client.clientSubscription
    /\ client'.clientConfiguration = client.clientConfiguration
    /\ client'.clientAuthorization = client.clientAuthorization
    /\ client'.clientSuggestedDifficulty = client.clientSuggestedDifficulty
    /\ client'.usedSuggestedDifficulty = client.usedSuggestedDifficulty

\* the steps of the handler of a message that fails validation: it changes
\* no slot and no latch, writes error 20 when validate has returned and
\* does not end the socket unless that write fails; session_difficulty is
\* changed only by the completion block, which runs after the answer in
\* whichever handler finds both slots present
C20_Step ==
    \A h \in Handlers : (Invalid(hs[h]) /\ hs'[h] # hs[h]) =>
        /\ SlotsUnchanged
        /\ ~Completing(h) => client'.sessionDifficulty = client.sessionDifficulty
        /\ hs[h].pc = "validate" =>
              /\ \/ socket'.out = Append(socket.out, ErrorLine(h, OtherUnknown))
                 \/ hs'[h].wfail /\ socket'.out = socket.out
              /\ socket'.ended = socket.ended
        /\ (hs[h].pc = "responseWrite" /\ ~hs[h].wfail) => socket'.ended = socket.ended

\* the arrival of a message that fails validation changes nothing
C20_Arrival ==
    (Len(hs') > Len(hs) /\ Invalid(hs'[Len(hs')])) => client' = client /\ socket' = socket

----------------------------------------------------------------------------
(* The merkle branch of a job *)

RECURSIVE CeilLog2(_)
CeilLog2(n) == IF n <= 1 THEN 0 ELSE 1 + CeilLog2((n + 1) \div 2)

\* the root of the full merkle tree over the leaves
RECURSIVE MerkleRoot(_)
MerkleRoot(layer) == IF Len(layer) <= 1 THEN layer[1] ELSE MerkleRoot(NextLayer(layer))

\* the siblings met on the way from the first leaf to the root
RECURSIVE Siblings(_)
Siblings(layer) ==
    IF Len(layer) <= 1 THEN <<>> ELSE <<layer[2]>> \o Siblings(NextLayer(layer))

\* a hash folded with a branch by repeated hash(left || right)
RECURSIVE Fold(_, _)
Fold(hash, branch) ==
    IF branch = <<>> THEN hash ELSE Fold(HashPair(hash, Head(branch)), Tail(branch))

\* C21: the merkle_branch of a job is the sequence of sibling hashes on the
\* path from the coinbase leaf to the root, of length ceil(log2(n)) for n
\* leaves, and folding the coinbase hash with it yields the root of the
\* full merkle tree over the leaves.
C21_MerkleBranch ==
    \A job \in registry.jobs :
        LET leaves == Leaves(registry.templates[1])
        IN  /\ Len(job.merkle_branch) = CeilLog2(Len(leaves))
            /\ job.merkle_branch = Siblings(leaves)
            /\ Fold(CoinbaseHash, job.merkle_branch) = MerkleRoot(leaves)

----------------------------------------------------------------------------
(* Block submission *)

\* handler h has called bitcoinRpcService.SUBMIT_BLOCK or blocksService.save
SubmitsBlock(h) == hs[h].calls \cap {"SUBMIT_BLOCK", "save"} # {}

\* C22: SUBMIT_BLOCK and blocksService.save are invoked for a submission
\* only if its difficulty is at least the network difficulty and it is
\* an accepted share: never for a submission answered with error 21, 22
\* or 23, so a block-level share sent again is not submitted again.
C22_BlockOnlyForAcceptedShare ==
    \A h \in Handlers : SubmitsBlock(h) =>
        /\ hs[h].msg.method = SUBMIT
        /\ SubmissionDifficulty(hs[h].msg) >= NetworkDifficulty
        /\ ~Written(ErrorLine(h, JobNotFound))
        /\ ~Written(ErrorLine(h, LowDifficultyShare))
        /\ ~Written(ErrorLine(h, DuplicateShare))

----------------------------------------------------------------------------
(* The difficulty the miner was told *)

\* no handleMessage, sendNewMiningJob or checkDifficulty invocation is
\* under way
Quiescent ==
    /\ \A h \in Handlers : Finished(hs[h])
    /\ \A t \in Tasks : tasks[t].pc = "done"

\* the difficulty notifications written: the suggest_difficulty response
\* and the set_difficulty of the handshake completion or of a tick
DifficultyLines == {i \in Lines : socket.out[i].kind = "set_difficulty"}

\* the value of the last of them
LastDifficulty ==
    socket.out[CHOOSE i \in DifficultyLines : \A j \in DifficultyLines : j <= i].val

\* C23: when the session is quiescent, its connection open and a difficulty
\* notification was written, session_difficulty is the value of the last
\* difficulty notification written, for every order of suggest_difficulty,
\* subscribe (any user agent) and authorize.
C23_DifficultyAsNotified ==
    (Quiescent /\ Open(socket) /\ DifficultyLines # {}) =>
        client.sessionDifficulty = LastDifficulty

----------------------------------------------------------------------------
(* The answer to a mining.submit *)

\* the response lines written for the message of handler h
Answers(h) == {i \in Lines : socket.out[i].by = "handler" /\ socket.out[i].id = h}

\* C24: a mining.submit never gets two response lines, a response line is
\* the positive acknowledgement or a Stratum error 20, 21, 22 or 23, and
\* when its handler has returned, the connection is open and its write
\* has succeeded, it has got exactly one.
C24_ExactlyOneAnswer ==
    \A h \in Handlers : hs[h].msg.method = SUBMIT =>
        /\ Cardinality(Answers(h)) <= 1
        /\ \A i \in Answers(h) :
              \/ socket.out[i] = ResultLine(h)
              \/ \E code \in {OtherUnknown, JobNotFound, DuplicateShare, LowDifficultyShare} :
                    socket.out[i] = ErrorLine(h, code)
        /\ (Finished(hs[h]) /\ Open(socket) /\ ~hs[h].wfail) => Cardinality(Answers(h)) = 1

\* C24's case: on an open connection two submissions have been answered,
\* one with the positive acknowledgement and one with an error.
C24_Witness ==
    /\ Open(socket)
    /\ \E h, g \in Handlers :
         /\ hs[h].msg.method = SUBMIT /\ hs[h].pc = "done" /\ Written(ResultLine(h))
         /\ hs[g].msg.method = SUBMIT /\ hs[g].pc = "done"
         /\ Written(ErrorLine(g, DuplicateShare))

====
